---- MODULE Spec2Model ----
(***************************************************************************)
(* A model of st2client's `action execute` / `action run` command          *)
(* (st2client/commands/action.py, class ActionRunCommand): the argument    *)
(* scan, the value transformers, the file post-pass, the submission, the   *)
(* poll loop, and the schema partition of _get_params_types.               *)
(*                                                                         *)
(* Python strings are sequences of one-character strings, so that          *)
(* `'=' in arg`, `arg.split('=', 1)`, `k.startswith('@')`, `' '.join`,     *)
(* `x.capitalize()` and the os.path functions are computed, not assumed.   *)
(* The interpreter is Python 2.7 (the module uses `async` as a name).      *)
(***************************************************************************)
EXTENDS Integers, Sequences, FiniteSets, TLC

\* ------------------------------------------------------------------ bounds

\* Longest token list given on the command line.
MaxTokens == 3
\* Longest script of statuses the execution service answers with.
MaxFetches == 4
\* Number of parameter names the schemas of the partition check range over.
NumParams == 2
\* Number of parameter names the sorted tables range over.
NumSortNames == 3
\* Greatest position a sorted table declares.
MaxPosition == 2

\* ------------------------------------------------------------- characters

LOWER == <<"a","b","c","d","e","f","g","h","i","j","k","l","m",
           "n","o","p","q","r","s","t","u","v","w","x","y","z">>
UPPER == <<"A","B","C","D","E","F","G","H","I","J","K","L","M",
           "N","O","P","Q","R","S","T","U","V","W","X","Y","Z">>
DIGITS == <<"0","1","2","3","4","5","6","7","8","9">>

IsLowerCh(c) == \E i \in 1..Len(LOWER) : LOWER[i] = c
IsUpperCh(c) == \E i \in 1..Len(UPPER) : UPPER[i] = c
IsDigitCh(c) == \E i \in 1..Len(DIGITS) : DIGITS[i] = c
IsAlphaCh(c) == IsLowerCh(c) \/ IsUpperCh(c)
DigitVal(c) == (CHOOSE i \in 1..Len(DIGITS) : DIGITS[i] = c) - 1
\* str.upper() / str.lower() on one character
UpperCh(c) == IF IsLowerCh(c) THEN UPPER[CHOOSE i \in 1..Len(LOWER) : LOWER[i] = c] ELSE c
LowerCh(c) == IF IsUpperCh(c) THEN LOWER[CHOOSE i \in 1..Len(UPPER) : UPPER[i] = c] ELSE c

\* ---------------------------------------------------------------- strings

\* `c in s` for a one-character c
HasCh(s, c) == \E i \in 1..Len(s) : s[i] = c
\* s.find(c) + 1: the first place of c in s (c occurs in s)
FirstCh(s, c) == CHOOSE i \in 1..Len(s) : s[i] = c /\ \A j \in 1..(i-1) : s[j] # c
\* s.rfind(c) + 1, 0 when c does not occur
LastCh(s, c) ==
    IF HasCh(s, c)
    THEN CHOOSE i \in 1..Len(s) : s[i] = c /\ \A j \in (i+1)..Len(s) : s[j] # c
    ELSE 0
\* s[i:] with i counted from 1
From(s, i) == SubSeq(s, i, Len(s))
\* s.startswith(p)
StartsWith(s, p) == Len(s) >= Len(p) /\ SubSeq(s, 1, Len(p)) = p
\* `needle in hay`
IsSubstr(needle, hay) ==
    \E i \in 1..(Len(hay) + 1) :
        i + Len(needle) - 1 <= Len(hay) /\ SubSeq(hay, i, i + Len(needle) - 1) = needle
\* s.lower()
Lower(s) == [i \in 1..Len(s) |-> LowerCh(s[i])]
\* s.capitalize(): first character upper-cased, the rest lower-cased
Capitalize(s) == [i \in 1..Len(s) |-> IF i = 1 THEN UpperCh(s[i]) ELSE LowerCh(s[i])]
\* s.strip(): leading and trailing blanks removed
RECURSIVE LStrip(_)
LStrip(s) == IF s # <<>> /\ Head(s) = " " THEN LStrip(Tail(s)) ELSE s
RECURSIVE RStrip(_)
RStrip(s) == IF s # <<>> /\ s[Len(s)] = " " THEN RStrip(SubSeq(s, 1, Len(s) - 1)) ELSE s
Strip(s) == RStrip(LStrip(s))
\* s.split(c): the pieces of s between the occurrences of c
RECURSIVE Split(_, _)
Split(s, c) ==
    IF HasCh(s, c)
    THEN <<SubSeq(s, 1, FirstCh(s, c) - 1)>> \o Split(From(s, FirstCh(s, c) + 1), c)
    ELSE <<s>>
\* c.join(parts)
RECURSIVE Join(_, _)
Join(parts, c) ==
    IF parts = <<>> THEN <<>>
    ELSE IF Len(parts) = 1 THEN parts[1]
    ELSE parts[1] \o <<c>> \o Join(Tail(parts), c)

\* The value of a string of decimal digits
RECURSIVE DecVal(_)
DecVal(s) == IF s = <<>> THEN 0 ELSE 10 * DecVal(SubSeq(s, 1, Len(s) - 1)) + DigitVal(s[Len(s)])
AllDigits(s) == s # <<>> /\ \A i \in 1..Len(s) : IsDigitCh(s[i])

\* ------------------------------------------------------------ name strings

S_cmd == <<"c","m","d">>
S_method == <<"m","e","t","h","o","d">>
S_POST == <<"P","O","S","T">>
S_file_name == <<"f","i","l","e","_","n","a","m","e">>
S_file_content == <<"f","i","l","e","_","c","o","n","t","e","n","t">>
S_staging == <<"_">> \o S_file_name
S_True == <<"T","r","u","e">>
S_False == <<"F","a","l","s","e">>
S_None == <<"N","o","n","e">>
S_malformed == <<"m","a","l","f","o","r","m","e","d"," ","s","t","r","i","n","g">>

\* ----------------------------------------------------------- Python values

\* A Python value carries its type: str, int, bool, None, float, list, dict, bytes.
StrV(s) == [t |-> "str", s |-> s]
IntV(i) == [t |-> "int", i |-> i]
BoolV(b) == [t |-> "bool", b |-> b]
NoneV == [t |-> "none"]
\* a float holding the decimal number  sign whole.frac
FloatV(neg, whole, frac) == [t |-> "float", neg |-> neg, whole |-> whole, frac |-> frac]
ListV(l) == [t |-> "list", l |-> l]
\* the empty JSON object, the only dict the model's inputs decode to
DictV == [t |-> "dict"]
BytesV(y) == [t |-> "bytes", y |-> y]

\* A call returns a value or raises: str(e) is `text` with `arg` formatted into it.
Ok(v) == [ok |-> TRUE, val |-> v]
Raise(exc, text, arg) == [ok |-> FALSE, exc |-> exc, text |-> text, arg |-> arg]
NoError == [exc |-> "none", text |-> "", arg |-> <<>>]
ErrorOf(r) == [exc |-> r.exc, text |-> r.text, arg |-> r.arg]

\* ------------------------------------------------------------ transformers

\* 'array': [v.strip() for v in cs_x.split(',')]
ToArray(cs_x) == Ok(ListV([i \in 1..Len(Split(cs_x, ",")) |-> Strip(Split(cs_x, ",")[i])]))

IsName(s) ==
    /\ s # <<>>
    /\ IsAlphaCh(s[1]) \/ s[1] = "_"
    /\ \A i \in 1..Len(s) : IsAlphaCh(s[i]) \/ IsDigitCh(s[i]) \/ s[i] = "_"
AllOctal(s) == \A i \in 1..Len(s) : IsDigitCh(s[i]) /\ DigitVal(s[i]) <= 7
RECURSIVE OctVal(_)
OctVal(s) == IF s = <<>> THEN 0 ELSE 8 * OctVal(SubSeq(s, 1, Len(s) - 1)) + DigitVal(s[Len(s)])
\* A Python 2 integer literal: decimal, or octal when it starts with 0
IntLiteral(s) ==
    IF Len(s) = 1 \/ s[1] # "0" THEN Ok(IntV(DecVal(s)))
    ELSE IF AllOctal(s) THEN Ok(IntV(OctVal(s)))
    ELSE Raise("SyntaxError", "invalid token", <<>>)
\* ast.literal_eval(s) of Python 2.7, for s over letters, digits, '_' and a
\* leading '-': the names True, False and None are the constants, any other
\* name is ValueError('malformed string'), a number is its value, and text
\* that is no expression is a SyntaxError.
LiteralEval(s) ==
    IF s = <<>> THEN Raise("SyntaxError", "unexpected EOF while parsing", <<>>)
    ELSE IF s = S_True THEN Ok(BoolV(TRUE))
    ELSE IF s = S_False THEN Ok(BoolV(FALSE))
    ELSE IF s = S_None THEN Ok(NoneV)
    ELSE IF IsName(s) THEN Raise("ValueError", "malformed string", <<>>)
    ELSE IF AllDigits(s) THEN IntLiteral(s)
    ELSE IF s[1] = "-" /\ AllDigits(Tail(s)) /\ IntLiteral(Tail(s)).ok
         THEN Ok(IntV(0 - IntLiteral(Tail(s)).val.i))
    ELSE Raise("SyntaxError", "invalid syntax", <<>>)
\* 'boolean': ast.literal_eval(x.capitalize())
ToBoolean(x) == LiteralEval(Capitalize(x))

\* The digits of a signed decimal string, after int()'s strip
Unsigned(s) == IF s # <<>> /\ (s[1] = "-" \/ s[1] = "+") THEN Tail(s) ELSE s
IsNeg(s) == s # <<>> /\ s[1] = "-"
\* 'integer': int(x), base 10
ToInteger(x) ==
    IF AllDigits(Unsigned(Strip(x)))
    THEN Ok(IntV(IF IsNeg(Strip(x)) THEN 0 - DecVal(Unsigned(Strip(x)))
                 ELSE DecVal(Unsigned(Strip(x)))))
    ELSE Raise("ValueError", "invalid literal for int() with base 10", x)
\* trailing zeros of a fraction removed, so that 1.50 and 1.5 are one float
RECURSIVE TrimZeros(_)
TrimZeros(s) == IF s # <<>> /\ s[Len(s)] = "0" THEN TrimZeros(SubSeq(s, 1, Len(s) - 1)) ELSE s
\* 'number': float(x), for decimal strings  [sign] digits [. digits]
ToNumber(x) ==
    LET u == Unsigned(Strip(x))
        w == IF HasCh(u, ".") THEN SubSeq(u, 1, FirstCh(u, ".") - 1) ELSE u
        f == IF HasCh(u, ".") THEN From(u, FirstCh(u, ".") + 1) ELSE <<>>
    IN  IF (w # <<>> \/ f # <<>>)
            /\ (\A i \in 1..Len(w) : IsDigitCh(w[i]))
            /\ (\A i \in 1..Len(f) : IsDigitCh(f[i]))
        THEN Ok(FloatV(IsNeg(Strip(x)) /\ (DecVal(w) # 0 \/ TrimZeros(f) # <<>>),
                       DecVal(w), TrimZeros(f)))
        ELSE Raise("ValueError", "could not convert string to float", x)
\* 'object': json.loads(x), for the documents the model's inputs hold: an
\* integer, true, false, null and the empty object; anything else is no JSON.
JsonLoads(x) ==
    LET s == Strip(x)
    IN  IF AllDigits(Unsigned(s)) /\ ~(s[1] = "+") /\ (Len(Unsigned(s)) = 1 \/ Unsigned(s)[1] # "0")
        THEN Ok(IntV(IF IsNeg(s) THEN 0 - DecVal(Unsigned(s)) ELSE DecVal(Unsigned(s))))
        ELSE IF s = <<"t","r","u","e">> THEN Ok(BoolV(TRUE))
        ELSE IF s = <<"f","a","l","s","e">> THEN Ok(BoolV(FALSE))
        ELSE IF s = <<"n","u","l","l">> THEN Ok(NoneV)
        ELSE IF s = <<"{","}">> THEN Ok(DictV)
        ELSE Raise("ValueError", "No JSON object could be decoded", <<>>)
\* 'string': str(x)
ToStr(x) == Ok(StrV(x))

\* The keys of the transformer table
TransformerTypes == {"array", "boolean", "integer", "number", "object", "string"}
\* transformer[type](value)
transformer(type, value) ==
    CASE type = "array" -> ToArray(value)
      [] type = "boolean" -> ToBoolean(value)
      [] type = "integer" -> ToInteger(value)
      [] type = "number" -> ToNumber(value)
      [] type = "object" -> JsonLoads(value)
      [] type = "string" -> ToStr(value)

\* `'type' in param and param['type'] in transformer`
HasKnownType(param) == "type" \in DOMAIN param /\ param["type"] \in TransformerTypes

\* normalize with the two lookups in the other order
normalize_actionFirst(runner_params, action_params, name, value) ==
    IF name \in DOMAIN action_params /\ HasKnownType(action_params[name])
    THEN transformer(action_params[name]["type"], value)
    ELSE IF name \in DOMAIN runner_params /\ HasKnownType(runner_params[name])
    THEN transformer(runner_params[name]["type"], value)
    ELSE Ok(StrV(value))
\* normalize(name, value): the runner's schema is consulted first, then the
\* action's; a value no schema types is returned as it came.
normalize(runner_params, action_params, name, value) ==
    IF name \in DOMAIN runner_params /\ HasKnownType(runner_params[name])
    THEN transformer(runner_params[name]["type"], value)
    ELSE IF name \in DOMAIN action_params /\ HasKnownType(action_params[name])
    THEN transformer(action_params[name]["type"], value)
    ELSE Ok(StrV(value))

\* ------------------------------------------------------------- file system

\* os.getcwd()
S_cwd == <<"/","w">>
\* The files of the machine the command runs on: /w/a and /w/s/b are regular
\* files, /, /w and /w/s are directories, and no other path exists.
P_a == <<"/","w","/","a">>
P_sb == <<"/","w","/","s","/","b">>
RegularFiles == {P_a, P_sb}
Directories == {<<"/">>, <<"/","w">>, <<"/","w","/","s">>}
\* open(path, 'rb').read()
FileBytes(path) == IF path = P_a THEN <<"A","A">> ELSE <<"B">>
\* os.path.exists / os.path.isfile
PathExists(path) == path \in RegularFiles \cup Directories
PathIsFile(path) == path \in RegularFiles

\* os.path.join(a, b) of posixpath: an absolute b replaces a
pjoin(a, b) ==
    IF StartsWith(b, <<"/">>) THEN b
    ELSE IF a = <<>> \/ a[Len(a)] = "/" THEN a \o b
    ELSE a \o <<"/">> \o b
\* The components of an absolute path with '', '.' dropped and '..' resolved
RECURSIVE NormComps(_, _)
NormComps(comps, acc) ==
    IF comps = <<>> THEN acc
    ELSE IF Head(comps) = <<>> \/ Head(comps) = <<".">> THEN NormComps(Tail(comps), acc)
    ELSE IF Head(comps) = <<".",".">>
         THEN NormComps(Tail(comps), IF acc = <<>> THEN acc ELSE SubSeq(acc, 1, Len(acc) - 1))
    ELSE NormComps(Tail(comps), Append(acc, Head(comps)))
\* os.path.normpath(path), for the absolute paths pjoin(os.getcwd(), v) gives
\* (a path that starts with exactly two slashes, which posixpath keeps, is
\* outside the inputs)
normpath(path) == <<"/">> \o Join(NormComps(Split(path, "/"), <<>>), "/")
\* os.path.basename(path): what follows the last slash
basename(path) == From(path, LastCh(path, "/") + 1)

\* read_file(file_path)
read_file(file_path) ==
    IF ~PathExists(file_path) THEN Raise("ValueError", "File \"%s\" doesn't exist", file_path)
    ELSE IF ~PathIsFile(file_path) THEN Raise("ValueError", "\"%s\" is not a file", file_path)
    ELSE Ok(BytesV(FileBytes(file_path)))

\* ------------------------------------------------------------------ state

VARIABLES
    args_parameters,    \* args.parameters: the tokens after the action reference
    args_async,         \* args.async
    runner_parameters,  \* runner.runner_parameters
    action_parameters,  \* action.parameters
    runner_required,    \* runner.required_parameters
    action_required,    \* action.required_parameters
    service_statuses,   \* the statuses the execution service answers with, in order
    service_result,     \* the result field of the executions the service answers with
    args_help,          \* args.help
    args_ref_or_id,     \* whether args.ref_or_id was given
    lookup,             \* how the lookups of the action and of its runner end
    sort_names,         \* the names _sort_parameters is called with, in their order
    pc,                 \* where the command is
    idx,                \* the index of the scan loop, counted from 1
    parameters,         \* execution.parameters
    scanned,            \* the indexes of the tokens the scan split and resolved
    error,              \* the exception that left run, NoError when none did
    execution,          \* the local `execution` after create
    created,            \* the parameter mappings create was called with
    refetches,          \* the number of get_by_id calls
    returned,           \* what run returned
    types,              \* what _get_params_types returned
    printed,            \* what print_help wrote, line by line
    sorted_names        \* what _sort_parameters returned

vars == <<args_parameters, args_async, runner_parameters, action_parameters,
          runner_required, action_required, service_statuses, service_result,
          pc, idx, parameters, scanned, error, execution, created, refetches,
          returned, types, args_help, args_ref_or_id, lookup, sort_names,
          printed, sorted_names>>
envVars == <<args_parameters, args_async, runner_parameters, action_parameters,
             runner_required, action_required, service_statuses, service_result,
             args_help, args_ref_or_id, lookup, sort_names>>
helpOut == <<printed, sorted_names>>

\* ACTIONEXEC_STATUS_SCHEDULED, ACTIONEXEC_STATUS_RUNNING
ACTIONEXEC_STATUS_SCHEDULED == "scheduled"
ACTIONEXEC_STATUS_RUNNING == "running"
\* The statuses the service reports
Statuses == {ACTIONEXEC_STATUS_SCHEDULED, ACTIONEXEC_STATUS_RUNNING, "succeeded", "failed"}

\* dict(), d[k] = v, del d[k]
EmptyDict == <<>>
DictSet(d, k, v) == [x \in DOMAIN d \cup {k} |-> IF x = k THEN v ELSE d[x]]
DictDel(d, k) == [x \in DOMAIN d \ {k} |-> d[x]]
NoExecution == [id |-> 0, status |-> "unset", result |-> NoneV]
NoTypes == [parameters |-> EmptyDict, required |-> {}, optional |-> {}, immutable |-> {}]

\* ------------------------------------------------------------ the scan loop

\* `'malformed string' in str(e)`
IsMalformed(e) == e.text = "malformed string" \/ IsSubstr(S_malformed, e.arg)
\* The except clause of the scan: the boolean transformer's ValueError is
\* replaced by one that names the valid values, any other exception is re-raised.
Reraise(e) ==
    IF IsMalformed(e)
    THEN [exc |-> "ValueError",
          text |-> "Invalid value for boolean parameter. Valid values are: true, false",
          arg |-> <<>>]
    ELSE e

\* k, v = arg.split('=', 1)
SplitKey(arg) == SubSeq(arg, 1, FirstCh(arg, "=") - 1)
SplitValue(arg) == From(arg, FirstCh(arg, "=") + 1)
\* `k.startswith('@')`
IsFileKey(k) == StartsWith(k, <<"@">>)
\* The path a file token names, resolved against the working directory
FilePath(v) == normpath(pjoin(S_cwd, v))

\* The body of the try block for a file token: the two keys are set only when
\* read_file returned.
StageFile(params, v) ==
    IF read_file(FilePath(v)).ok
    THEN [params |-> DictSet(DictSet(params, S_staging, StrV(basename(FilePath(v)))),
                             S_file_content, read_file(FilePath(v)).val),
          error |-> NoError]
    ELSE [params |-> params, error |-> ErrorOf(read_file(FilePath(v)))]
\* The body of the try block for a key=value token
StoreValue(params, rp, ap, k, v) ==
    IF normalize(rp, ap, k, v).ok
    THEN [params |-> DictSet(params, k, normalize(rp, ap, k, v).val), error |-> NoError]
    ELSE [params |-> params, error |-> ErrorOf(normalize(rp, ap, k, v))]
\* ScanBody with the `break` lost: a bare token sets cmd and the loop goes on.
ScanBody_noBreak(params, rp, ap, args, i) ==
    IF HasCh(args[i], "=")
    THEN LET k == SplitKey(args[i])
             v == SplitValue(args[i])
             r == IF IsFileKey(k) THEN StageFile(params, v)
                  ELSE StoreValue(params, rp, ap, k, v)
         IN  [params |-> r.params,
              error |-> IF r.error = NoError THEN NoError ELSE Reraise(r.error),
              brk |-> FALSE, split |-> TRUE]
    ELSE [params |-> DictSet(params, S_cmd, StrV(Join(From(args, i), " "))),
          error |-> NoError, brk |-> FALSE, split |-> FALSE]
\* One pass of the loop body over args.parameters[i] (i counted from 1):
\* the mapping after it, the exception it raised, and whether it left the loop.
ScanBody(params, rp, ap, args, i) ==
    IF HasCh(args[i], "=")
    THEN LET k == SplitKey(args[i])
             v == SplitValue(args[i])
             r == IF IsFileKey(k) THEN StageFile(params, v)
                  ELSE StoreValue(params, rp, ap, k, v)
         IN  [params |-> r.params,
              error |-> IF r.error = NoError THEN NoError ELSE Reraise(r.error),
              brk |-> FALSE, split |-> TRUE]
    ELSE [params |-> DictSet(params, S_cmd, StrV(Join(From(args, i), " "))),
          error |-> NoError, brk |-> TRUE, split |-> FALSE]

\* The post-pass after the loop: a mapping that holds file_content gets the
\* defaults of method and file_name and loses the staging key; reading or
\* deleting a staging key that is not there is a KeyError.
KeyErrorStaging == [exc |-> "KeyError", text |-> "'_file_name'", arg |-> <<>>]
WithMethod(params) ==
    IF S_method \notin DOMAIN params THEN DictSet(params, S_method, StrV(S_POST)) ELSE params
\* PostPass with the `not in` tests lost: the defaults replace what was given
PostPass_alwaysDefault(params) ==
    IF S_file_content \in DOMAIN params
    THEN IF S_staging \notin DOMAIN params
         THEN [params |-> DictSet(params, S_method, StrV(S_POST)), error |-> KeyErrorStaging]
         ELSE [params |-> DictDel(DictSet(DictSet(params, S_method, StrV(S_POST)),
                                          S_file_name, params[S_staging]),
                                  S_staging),
               error |-> NoError]
    ELSE [params |-> params, error |-> NoError]
\* PostPass with the `del` lost: the staging key stays in the mapping
PostPass_keepStaging(params) ==
    IF S_file_content \in DOMAIN params
    THEN IF S_staging \notin DOMAIN params
         THEN [params |-> WithMethod(params), error |-> KeyErrorStaging]
         ELSE [params |-> IF S_file_name \notin DOMAIN params
                          THEN DictSet(WithMethod(params), S_file_name, params[S_staging])
                          ELSE WithMethod(params),
               error |-> NoError]
    ELSE [params |-> params, error |-> NoError]
PostPass(params) ==
    IF S_file_content \in DOMAIN params
    THEN IF S_staging \notin DOMAIN params
         THEN [params |-> WithMethod(params), error |-> KeyErrorStaging]
         ELSE [params |-> DictDel(IF S_file_name \notin DOMAIN params
                                  THEN DictSet(WithMethod(params), S_file_name,
                                               params[S_staging])
                                  ELSE WithMethod(params),
                                  S_staging),
               error |-> NoError]
    ELSE [params |-> params, error |-> NoError]

\* The loop condition with the `running` half lost
StillPending_scheduledOnly(status) == status = ACTIONEXEC_STATUS_SCHEDULED
\* The condition of the poll loop
StillPending(status) ==
    status = ACTIONEXEC_STATUS_SCHEDULED \/ status = ACTIONEXEC_STATUS_RUNNING
\* try: execution.result = json.loads(execution.result) except: pass
DecodeResult(result) ==
    IF result.t = "str" /\ JsonLoads(result.s).ok THEN JsonLoads(result.s).val ELSE result
\* What the service answers to its n-th request (create is the first)
ServiceAnswer(n) == [id |-> 1, status |-> service_statuses[n], result |-> service_result]

\* ------------------------------------------------------- _get_params_types

\* d.get(k, default)
DictGet(d, k, default) == IF k \in DOMAIN d THEN d[k] ELSE default
\* parameters = copy.copy(runner_params); parameters.update(copy.copy(action_params))
MergedParameters(runner_params, action_params) ==
    [k \in DOMAIN runner_params \cup DOMAIN action_params |->
        IF k \in DOMAIN action_params THEN action_params[k] ELSE runner_params[k]]
\* is_immutable with the action's entry deciding whenever it has the field
is_immutable_actionOverrides(runner_param_meta, action_param_meta) ==
    IF "immutable" \in DOMAIN action_param_meta THEN action_param_meta["immutable"]
    ELSE DictGet(runner_param_meta, "immutable", FALSE)
\* is_immutable(runner_param_meta, action_param_meta): if the runner sets a
\* param as immutable, the action cannot override that.
is_immutable(runner_param_meta, action_param_meta) ==
    IF DictGet(runner_param_meta, "immutable", FALSE) THEN TRUE
    ELSE DictGet(action_param_meta, "immutable", FALSE)
\* The immutable set built by the loop over parameters.keys()
ImmutableNames(runner_params, action_params) ==
    {param \in DOMAIN MergedParameters(runner_params, action_params) :
        is_immutable(DictGet(runner_params, param, EmptyDict),
                     DictGet(action_params, param, EmptyDict))}
\* RequiredNames with `- immutable` lost
RequiredNames_keepImmutable(runner_params, action_params, runner_req, action_req) ==
    runner_req \cup action_req
\* required = set(runner.required_parameters + action.required_parameters) - immutable
RequiredNames(runner_params, action_params, runner_req, action_req) ==
    (runner_req \cup action_req) \ ImmutableNames(runner_params, action_params)
\* optional = set(parameters.keys()) - required - immutable
OptionalNames(runner_params, action_params, runner_req, action_req) ==
    (DOMAIN MergedParameters(runner_params, action_params)
        \ RequiredNames(runner_params, action_params, runner_req, action_req))
        \ ImmutableNames(runner_params, action_params)
\* _get_params_types(runner, action): parameters, required, optional, immutable
get_params_types(runner_params, action_params, runner_req, action_req) ==
    [parameters |-> MergedParameters(runner_params, action_params),
     required |-> RequiredNames(runner_params, action_params, runner_req, action_req),
     optional |-> OptionalNames(runner_params, action_params, runner_req, action_req),
     immutable |-> ImmutableNames(runner_params, action_params)]

\* --------------------------------------------------------- _sort_parameters

\* The characters in the order of their codes
CHAR_ORDER == DIGITS \o UPPER \o <<"_">> \o LOWER
CharCode(c) == CHOOSE i \in 1..Len(CHAR_ORDER) : CHAR_ORDER[i] = c
\* a < b for two strings
RECURSIVE StrLess(_, _)
StrLess(a, b) ==
    IF b = <<>> THEN FALSE
    ELSE IF a = <<>> THEN TRUE
    ELSE IF Head(a) # Head(b) THEN CharCode(Head(a)) < CharCode(Head(b))
    ELSE StrLess(Tail(a), Tail(b))
\* a < b for two sort values, as Python 2 orders them: None before every
\* number, numbers before strings
KeyLess(a, b) ==
    IF a.t = "none" THEN b.t # "none"
    ELSE IF a.t = "int" THEN (b.t = "int" /\ a.i < b.i) \/ b.t = "str"
    ELSE b.t = "str" /\ StrLess(a.s, b.s)

\* _get_parameter_sort_value with the position read as `get('position') or name`
get_parameter_sort_value_falsyPosition(parameters_, name) ==
    IF name \notin DOMAIN parameters_ \/ DOMAIN parameters_[name] = {} THEN NoneV
    ELSE IF "position" \in DOMAIN parameters_[name] /\ parameters_[name]["position"] # 0
    THEN IntV(parameters_[name]["position"])
    ELSE StrV(name)
\* _get_parameter_sort_value(parameters, name): None for a name the table
\* lacks or whose entry is empty, else the entry's position, else the name
get_parameter_sort_value(parameters_, name) ==
    IF name \notin DOMAIN parameters_ \/ DOMAIN parameters_[name] = {} THEN NoneV
    ELSE IF "position" \in DOMAIN parameters_[name] THEN IntV(parameters_[name]["position"])
    ELSE StrV(name)
\* x put into a sorted list behind every element that is not greater than it
RECURSIVE InsertSorted(_, _, _)
InsertSorted(parameters_, out, x) ==
    IF out = <<>> THEN <<x>>
    ELSE IF KeyLess(get_parameter_sort_value(parameters_, x),
                    get_parameter_sort_value(parameters_, Head(out)))
    THEN <<x>> \o out
    ELSE <<Head(out)>> \o InsertSorted(parameters_, Tail(out), x)
\* sorted(names, key=...): a stable sort, equal keys keep the order of names
RECURSIVE StableSorted(_, _, _)
StableSorted(parameters_, names, out) ==
    IF names = <<>> THEN out
    ELSE StableSorted(parameters_, Tail(names), InsertSorted(parameters_, out, Head(names)))
\* _sort_parameters(parameters, names)
sort_parameters(parameters_, names) == StableSorted(parameters_, names, <<>>)

\* ---------------------------------------------------------------- print_help

\* How the lookups of the action and of its runner end: both are found,
\* get_resource raises ResourceNotFoundError, get_resource returns None, or
\* get_by_name returns None
LookupOutcomes == {"ok", "action_raises", "action_none", "runner_none"}

\* A printed line
Line(kind, text) == [kind |-> kind, text |-> text]
\* parameters.get(name): None for a name the table lacks; None and {} are
\* both false to `not schema`
NoSchema == EmptyDict
\* The line print_param writes for a field the schema has
FieldLine(schema, field) ==
    IF field \in DOMAIN schema THEN <<Line(field, schema[field])>> ELSE <<>>
\* print_param(name, schema)
print_param(name, schema) ==
    IF DOMAIN schema = {}
    THEN Raise("ValueError", "Missing schema for parameter", name)
    ELSE Ok(<<Line("name", name)>> \o FieldLine(schema, "description")
            \o FieldLine(schema, "type") \o FieldLine(schema, "enum")
            \o FieldLine(schema, "default") \o <<Line("blank", <<>>)>>)
\* [self.print_param(name, parameters.get(name)) for name in names]: the
\* lines written, and whether the comprehension ended without an exception
RECURSIVE PrintParams(_, _)
PrintParams(parameters_, names) ==
    IF names = <<>> THEN [lines |-> <<>>, ok |-> TRUE]
    ELSE LET r == print_param(Head(names), DictGet(parameters_, Head(names), NoSchema))
         IN  IF ~r.ok THEN [lines |-> <<>>, ok |-> FALSE]
             ELSE LET rest == PrintParams(parameters_, Tail(names))
                  IN  [lines |-> r.val \o rest.lines, ok |-> rest.ok]
\* `if names:` sort them, print the header and the parameters
PrintSection(parameters_, header, names) ==
    IF names = <<>> THEN [lines |-> <<>>, ok |-> TRUE]
    ELSE LET r == PrintParams(parameters_, sort_parameters(parameters_, names))
         IN  [lines |-> <<Line("header", header)>> \o r.lines, ok |-> r.ok]
\* The orders a set can be iterated in
Orderings(S) ==
    {f \in [1..Cardinality(S) -> S] : \A i, j \in 1..Cardinality(S) : i # j => f[i] # f[j]}
\* The try block of print_help once the action and the runner are found,
\* with the required and the optional names iterated in the given orders;
\* an exception ends it with the ERROR line
RenderHelp(t, required, optional) ==
    LET head == <<Line("blank", <<>>), Line("description", <<>>), Line("blank", <<>>)>>
        req == PrintSection(t.parameters, "Required Parameters:", required)
        opt == PrintSection(t.parameters, "Optional Parameters:", optional)
    IN  IF ~req.ok THEN head \o req.lines \o <<Line("error", <<>>)>>
        ELSE IF ~opt.ok THEN head \o req.lines \o opt.lines \o <<Line("error", <<>>)>>
        ELSE head \o req.lines \o opt.lines
\* What print_help can write
print_help(help, ref_or_id, found, runner_params, action_params, runner_req, action_req) ==
    IF ~help THEN {<<>>}
    ELSE IF ~ref_or_id THEN {<<Line("usage", <<>>)>>}
    ELSE IF found = "action_raises" THEN {<<Line("not_found", <<>>)>>}
    ELSE IF found # "ok" THEN {<<Line("error", <<>>)>>}
    ELSE LET t == get_params_types(runner_params, action_params, runner_req, action_req)
         IN  {RenderHelp(t, ro, oo) : ro \in Orderings(t.required),
                                      oo \in Orderings(t.optional)}
\* print_help that returns False whatever it printed
PrintHelpReturns_false(help) == FALSE
\* What print_help returns: True when the help option is given
PrintHelpReturns(help) == help

\* --------------------------------------------------------------- actions

\* run_and_print: print_help, and run only when it returned False
PrintHelp ==
    /\ pc = "start"
    /\ printed' \in print_help(args_help, args_ref_or_id, lookup, runner_parameters,
                               action_parameters, runner_required, action_required)
    /\ pc' = IF PrintHelpReturns(args_help) THEN "helped" ELSE "run"
    /\ UNCHANGED <<envVars, sorted_names, idx, parameters, scanned, error, execution,
                   created, refetches, returned, types>>

\* The exception run raises before the loop, NoError when the reference is
\* given and the action and its runner are found
LookupError(ref_or_id, found) ==
    IF ~ref_or_id THEN [exc |-> "SystemExit", text |-> "too few arguments", arg |-> <<>>]
    ELSE IF found \in {"action_raises", "action_none"}
    THEN [exc |-> "ResourceNotFoundError", text |-> "Action cannot be found.", arg |-> <<>>]
    ELSE IF found = "runner_none"
    THEN [exc |-> "ResourceNotFoundError", text |-> "Runner type cannot be found.", arg |-> <<>>]
    ELSE NoError

\* run, up to the loop: the action and its runner are looked up, and the
\* execution starts with an empty parameter mapping.
Start ==
    /\ pc = "run"
    /\ error' = LookupError(args_ref_or_id, lookup)
    /\ parameters' = EmptyDict
    /\ idx' = 1
    /\ pc' = IF LookupError(args_ref_or_id, lookup) # NoError THEN "raised"
             ELSE IF args_parameters = <<>> THEN "post" ELSE "scan"
    /\ UNCHANGED <<envVars, helpOut, scanned, execution, created, refetches, returned, types>>

\* ScanToken with the exception swallowed: the loop goes on to the next token.
ScanToken_swallow ==
    /\ pc = "scan"
    /\ idx <= Len(args_parameters)
    /\ LET r == ScanBody(parameters, runner_parameters, action_parameters,
                         args_parameters, idx)
       IN  /\ parameters' = r.params
           /\ scanned' = IF r.split THEN Append(scanned, idx) ELSE scanned
           /\ error' = IF r.error # NoError THEN r.error ELSE error
           /\ pc' = IF r.brk \/ idx = Len(args_parameters) THEN "post" ELSE "scan"
           /\ idx' = IF ~r.brk /\ idx < Len(args_parameters) THEN idx + 1 ELSE idx
    /\ UNCHANGED <<envVars, helpOut, execution, created, refetches, returned, types>>

\* One pass of `for idx in range(len(args.parameters))`: an exception leaves
\* run, a bare token or the last token ends the loop.
ScanToken ==
    /\ pc = "scan"
    /\ idx <= Len(args_parameters)
    /\ LET r == ScanBody(parameters, runner_parameters, action_parameters,
                         args_parameters, idx)
       IN  /\ parameters' = r.params
           /\ scanned' = IF r.split THEN Append(scanned, idx) ELSE scanned
           /\ error' = IF r.error # NoError THEN r.error ELSE error
           /\ pc' = IF r.error # NoError THEN "raised"
                    ELSE IF r.brk \/ idx = Len(args_parameters) THEN "post"
                    ELSE "scan"
           /\ idx' = IF r.error = NoError /\ ~r.brk /\ idx < Len(args_parameters)
                     THEN idx + 1 ELSE idx
    /\ UNCHANGED <<envVars, helpOut, execution, created, refetches, returned, types>>

\* The post-pass over the finished mapping
PostPassStep ==
    /\ pc = "post"
    /\ parameters' = PostPass(parameters).params
    /\ error' = IF PostPass(parameters).error # NoError THEN PostPass(parameters).error
                ELSE error
    /\ pc' = IF PostPass(parameters).error # NoError THEN "raised" ELSE "submit"
    /\ UNCHANGED <<envVars, helpOut, idx, scanned, execution, created, refetches, returned, types>>

\* Create with the mode switch lost: the poll loop is entered in either mode.
Create_alwaysPoll ==
    /\ pc = "submit"
    /\ created' = Append(created, parameters)
    /\ execution' = ServiceAnswer(1)
    /\ pc' = "poll"
    /\ UNCHANGED <<envVars, helpOut, idx, parameters, scanned, error, refetches, returned, types>>

\* execution = action_exec_mgr.create(execution): in asynchronous mode run
\* returns what create returned.
Create ==
    /\ pc = "submit"
    /\ created' = Append(created, parameters)
    /\ execution' = ServiceAnswer(1)
    /\ pc' = IF args_async THEN "done" ELSE "poll"
    /\ returned' = IF args_async THEN ServiceAnswer(1) ELSE returned
    /\ UNCHANGED <<envVars, helpOut, idx, parameters, scanned, error, refetches, types>>

\* One pass of the poll loop: sleep, then get_by_id. The script of answers is
\* finite; a poller whose script ran out keeps waiting.
Refetch ==
    /\ pc = "poll"
    /\ StillPending(execution.status)
    /\ refetches + 2 <= Len(service_statuses)
    /\ refetches' = refetches + 1
    /\ execution' = ServiceAnswer(refetches + 2)
    /\ UNCHANGED <<envVars, helpOut, pc, idx, parameters, scanned, error, created, returned, types>>

\* The poll loop ends: the result is decoded when it is JSON, and run returns.
Finish ==
    /\ pc = "poll"
    /\ ~StillPending(execution.status)
    /\ execution' = [execution EXCEPT !.result = DecodeResult(@)]
    /\ returned' = [execution EXCEPT !.result = DecodeResult(@)]
    /\ pc' = "done"
    /\ UNCHANGED <<envVars, helpOut, idx, parameters, scanned, error, created, refetches, types>>

Next == PrintHelp \/ Start \/ ScanToken \/ PostPassStep \/ Create \/ Refetch \/ Finish

\* ------------------------------------------------------------- the inputs

\* args.async: the `run` command has an --async flag, any other name of the
\* command (`execute`) sets async to True.
ParseAsync(name, flag) == IF name = "run" THEN flag ELSE TRUE

T_n1 == <<"n","=","1">>
T_nx == <<"n","=","x">>
T_file_a == <<"@","f","=",".","/","a">>
T_file_sb == <<"@","g","=","s","/","b">>
T_dir == <<"@","f","=","s">>
T_missing == <<"@","f","=","q">>
T_free == <<"f","r","e","e">>
T_file_name == S_file_name \o <<"=","z">>
T_method == S_method \o <<"=","G","E","T">>
T_file_content == S_file_content \o <<"=","c">>
T_staging == S_staging \o <<"=","e">>
\* The tokens the command lines are made of
TokenPool == {T_n1, T_nx, T_file_a, T_file_sb, T_dir, T_missing, T_free,
              T_file_name, T_method, T_file_content, T_staging}
TokenLists == UNION {[1..n -> TokenPool] : n \in 0..MaxTokens}

\* The raw values and the names of the one-token command lines  name=value
RawValues == {<<"t","r","u","e">>, <<"T","r","u","e">>, <<"T","R","U","E">>,
              <<"t","R","u","E">>, <<"f","a","l","s","e">>, <<"F","A","L","S","E">>,
              <<"m","a","y","b","e">>, <<"1">>, <<"n","o","n","e">>, <<>>,
              <<"0","1","0">>, <<"-","1">>, <<"{","}">>, <<"1",","," ","2">>,
              <<"1",".","5","0">>}
ValueNames == {<<"n">>, <<"b">>, <<"m">>, <<"t">>, <<"u">>, <<"a">>, <<"o">>, <<"r">>}
ValueLists == {<<k \o <<"=">> \o v>> : k \in ValueNames, v \in RawValues}

\* The schemas of the runner and of the action the command lines are run on:
\* n is typed by both, m has a type the runner's table does not know, t has
\* no type in the runner, u is declared by neither.
RunnerSchema ==
    (<<"n">> :> [type |-> "integer"]) @@ (<<"m">> :> [type |-> "any"])
    @@ (<<"t">> :> [description |-> "t"]) @@ (<<"a">> :> [type |-> "array"])
    @@ (<<"r">> :> [type |-> "number"])
ActionSchema ==
    (<<"n">> :> [type |-> "string"]) @@ (<<"m">> :> [type |-> "integer"])
    @@ (<<"t">> :> [type |-> "boolean"]) @@ (<<"b">> :> [type |-> "boolean"])
    @@ (<<"o">> :> [type |-> "object"])

InitProgram ==
    /\ pc = "start"
    /\ idx = 1
    /\ parameters = EmptyDict
    /\ scanned = <<>>
    /\ error = NoError
    /\ execution = NoExecution
    /\ created = <<>>
    /\ refetches = 0
    /\ returned = NoExecution
    /\ types = NoTypes
    /\ printed = <<>>
    /\ sorted_names = <<>>
\* A command line with an action reference that resolves, and without --help
InitNoHelp ==
    /\ args_help = FALSE
    /\ args_ref_or_id = TRUE
    /\ lookup = "ok"
    /\ sort_names = <<>>

\* Command lines of every shape, against one service script
Init ==
    /\ args_parameters \in TokenLists \cup ValueLists
    /\ \E name \in {"run", "execute"}, flag \in BOOLEAN : args_async = ParseAsync(name, flag)
    /\ runner_parameters = RunnerSchema
    /\ action_parameters = ActionSchema
    /\ runner_required = {}
    /\ action_required = {}
    /\ service_statuses = <<"running", "succeeded">>
    /\ service_result = StrV(<<"{","}">>)
    /\ InitNoHelp
    /\ InitProgram

Spec == Init /\ [][Next]_vars

\* Service scripts of every shape, against a few command lines
ServiceScripts == UNION {[1..n -> Statuses] : n \in 1..MaxFetches}
InitPoll ==
    /\ args_parameters \in {<<>>, <<T_n1>>}
    /\ \E name \in {"run", "execute"}, flag \in BOOLEAN : args_async = ParseAsync(name, flag)
    /\ runner_parameters = RunnerSchema
    /\ action_parameters = ActionSchema
    /\ runner_required = {}
    /\ action_required = {}
    /\ service_statuses \in ServiceScripts
    /\ service_result \in {StrV(<<"{","}">>), StrV(<<"x">>), NoneV}
    /\ InitNoHelp
    /\ InitProgram

SpecPoll == InitPoll /\ [][Next]_vars

\* ------------------------------------------- the call of _get_params_types

\* The call of _get_params_types on the runner and the action
GetParamsTypes ==
    /\ pc = "start"
    /\ types' = get_params_types(runner_parameters, action_parameters,
                                 runner_required, action_required)
    /\ pc' = "typed"
    /\ UNCHANGED <<envVars, helpOut, idx, parameters, scanned, error, execution, created,
                   refetches, returned>>

NextTypes == GetParamsTypes

\* The names p1, p2, ... the schemas declare or require
SchemaNames == {<<"p", DIGITS[i + 1]>> : i \in 1..NumParams}
\* A parameter's entry: without an immutable field, or with it true or false
MetaChoices == {[description |-> "d"], [immutable |-> TRUE], [immutable |-> FALSE]}
Schemas == UNION {[names -> MetaChoices] : names \in SUBSET SchemaNames}

\* Runners and actions of every shape
InitTypes ==
    /\ args_parameters = <<>>
    /\ args_async = TRUE
    /\ runner_parameters \in Schemas
    /\ action_parameters \in Schemas
    /\ runner_required \in SUBSET SchemaNames
    /\ action_required \in SUBSET SchemaNames
    /\ service_statuses = <<"succeeded">>
    /\ service_result = NoneV
    /\ InitNoHelp
    /\ InitProgram

SpecTypes == InitTypes /\ [][NextTypes]_vars

\* -------------------------------------------- the call of _sort_parameters

\* The call of _sort_parameters on the merged table and a list of names
SortParameters ==
    /\ pc = "start"
    /\ sorted_names' = sort_parameters(MergedParameters(runner_parameters, action_parameters),
                                       sort_names)
    /\ pc' = "sorted"
    /\ UNCHANGED <<envVars, printed, idx, parameters, scanned, error, execution, created,
                   refetches, returned, types>>

NextSort == SortParameters

\* The names the sorted tables declare: the first NumSortNames of these
SortNamePool == <<<<"b">>, <<"a","b">>, <<"a">>, <<"c">>, <<"B">>>>
SortNames == {SortNamePool[i] : i \in 1..NumSortNames}
\* An entry: empty, without a position, or with a position 0..MaxPosition
SortMetaChoices ==
    {EmptyDict, [description |-> "d"]} \cup {[position |-> q] : q \in 0..MaxPosition}
SortTables == UNION {[names -> SortMetaChoices] : names \in SUBSET SortNames}
\* The lists of distinct names, in every order
NameLists ==
    UNION {{f \in [1..n -> SortNames] : \A i, j \in 1..n : i # j => f[i] # f[j]} :
            n \in 0..NumSortNames}

\* Tables and lists of names of every shape
InitSort ==
    /\ args_parameters = <<>>
    /\ args_async = TRUE
    /\ runner_parameters = EmptyDict
    /\ action_parameters \in SortTables
    /\ runner_required = {}
    /\ action_required = {}
    /\ service_statuses = <<"succeeded">>
    /\ service_result = NoneV
    /\ args_help = FALSE
    /\ args_ref_or_id = TRUE
    /\ lookup = "ok"
    /\ sort_names \in NameLists
    /\ InitProgram

SpecSort == InitSort /\ [][NextSort]_vars

\* ------------------------------------------------- the call of run_and_print

\* An entry of a table the help is printed for
HelpMetaChoices ==
    {EmptyDict, [description |-> "d"], [type |-> "string", position |-> 0],
     [immutable |-> TRUE]}
HelpTables == UNION {[names -> HelpMetaChoices] : names \in SUBSET SchemaNames}

\* Command lines with and without --help and an action reference, lookups
\* of every outcome, tables of every shape
InitHelp ==
    /\ args_parameters \in {<<>>, <<T_n1>>}
    /\ \E name \in {"run", "execute"}, flag \in BOOLEAN : args_async = ParseAsync(name, flag)
    /\ runner_parameters = EmptyDict
    /\ action_parameters \in HelpTables
    /\ runner_required = {}
    /\ action_required \in SUBSET SchemaNames
    /\ service_statuses = <<"running", "succeeded">>
    /\ service_result = StrV(<<"{","}">>)
    /\ args_help \in BOOLEAN
    /\ args_ref_or_id \in BOOLEAN
    /\ lookup \in LookupOutcomes
    /\ sort_names = <<>>
    /\ InitProgram

SpecHelp == InitHelp /\ [][Next]_vars

\* ------------------------------------------------ claims about run: errors

\* The token at place i of the command line, as the scan reads it
TokenHasEq(i) == HasCh(args_parameters[i], "=")
TokenIsFile(i) == TokenHasEq(i) /\ IsFileKey(SplitKey(args_parameters[i]))
TokenKey(i) ==
    IF TokenIsFile(i) THEN Tail(SplitKey(args_parameters[i])) ELSE SplitKey(args_parameters[i])
TokenValue(i) == SplitValue(args_parameters[i])
\* The indexes the scan resolved so far
ScannedSet == {scanned[j] : j \in 1..Len(scanned)}

\* C1: once any step of parameter resolution has raised (a failed coercion, a
\* missing file, a path that is no regular file, or the post-pass), the
\* invocation is over: create was not called and is never called, no
\* get_by_id is issued, and run returns nothing.
C1_ErrorAbortsSubmission ==
    error # NoError =>
        /\ pc = "raised"
        /\ created = <<>>
        /\ refetches = 0
        /\ execution = NoExecution
        /\ returned = NoExecution
\* A path that is a directory, met after an earlier token was already stored
C1_Witness ==
    /\ pc = "raised"
    /\ error.text = "\"%s\" is not a file"
    /\ args_parameters = <<T_n1, T_dir, T_n1>>
    /\ parameters # EmptyDict
    /\ created = <<>>

\* ------------------------------------------------- claims about run: polling

NonTerminal(status) == status \in {"scheduled", "running"}
\* The place of the first status of the script outside {scheduled, running}
HasTerminal == \E i \in 1..Len(service_statuses) : ~NonTerminal(service_statuses[i])
FirstTerminal ==
    CHOOSE i \in 1..Len(service_statuses) :
        /\ ~NonTerminal(service_statuses[i])
        /\ \A j \in 1..(i - 1) : NonTerminal(service_statuses[j])

\* C2: in synchronous mode the poller has issued one refetch per status in
\* {scheduled, running} it has seen, never one after a terminal status, and
\* run returns the execution at the first terminal status of the script,
\* after exactly as many refetches as statuses came before it.
C2_PollUntilTerminal ==
    ~args_async =>
        /\ \A j \in 1..refetches : NonTerminal(service_statuses[j])
        /\ pc \in {"poll", "done"} => execution.status = service_statuses[refetches + 1]
        /\ pc = "done" =>
            /\ HasTerminal
            /\ refetches = FirstTerminal - 1
            /\ returned.status = service_statuses[FirstTerminal]
            /\ returned.id = 1
\* The script scheduled, running, running, succeeded: three refetches
C2_Witness ==
    /\ ~args_async
    /\ pc = "done"
    /\ service_statuses = <<"scheduled", "running", "running", "succeeded">>
    /\ refetches = 3
    /\ returned.status = "succeeded"

\* C3: in asynchronous mode get_by_id is never called, and run returns the
\* execution as create answered it, whatever its status, its result undecoded.
C3_AsyncNoRefetch ==
    args_async =>
        /\ refetches = 0
        /\ pc # "poll"
        /\ pc = "done" =>
            returned = [id |-> 1, status |-> service_statuses[1], result |-> service_result]
\* An asynchronous run that returns a running execution with its JSON text
C3_Witness ==
    /\ args_async
    /\ pc = "done"
    /\ returned.status = "running"
    /\ returned.result = StrV(<<"{","}">>)
    /\ Len(service_statuses) > 1
    /\ refetches = 0

\* ------------------------------------------------ claims about run: the scan

\* The place of the first token without '=', Len + 1 when every token has one
FirstBare ==
    IF \E i \in 1..Len(args_parameters) : ~TokenHasEq(i)
    THEN CHOOSE i \in 1..Len(args_parameters) :
            ~TokenHasEq(i) /\ \A j \in 1..(i - 1) : TokenHasEq(j)
    ELSE Len(args_parameters) + 1
ScanOver == pc \in {"post", "submit", "poll", "done"}

\* C4: the scan resolves the tokens in order, as key=value pairs, and only
\* those before the first token without '='; when it gets to that token, cmd
\* is that token and all that follow joined by single spaces, and no later
\* token is split, coerced or read, whatever it looks like.
C4_BareTokenStopsScan ==
    /\ scanned = [j \in 1..Len(scanned) |-> j]
    /\ \A j \in ScannedSet : j < FirstBare
    /\ idx <= FirstBare
    /\ ScanOver => Len(scanned) = FirstBare - 1
    /\ (ScanOver /\ FirstBare <= Len(args_parameters)) =>
        /\ S_cmd \in DOMAIN parameters
        /\ parameters[S_cmd] = StrV(Join(From(args_parameters, FirstBare), " "))
        /\ idx = FirstBare
    /\ (pc = "post" /\ FirstBare <= Len(args_parameters)) =>
        DOMAIN parameters \subseteq
            {S_cmd, S_file_content, S_staging} \cup {TokenKey(j) : j \in 1..(FirstBare - 1)}
\* n=1, then a bare token, then a file token that is never read
C4_Witness ==
    /\ pc = "done"
    /\ args_parameters = <<T_n1, T_free, T_file_a>>
    /\ parameters[S_cmd] = StrV(T_free \o <<" ">> \o T_file_a)
    /\ parameters[<<"n">>] = IntV(1)
    /\ DOMAIN parameters = {S_cmd, <<"n">>}
    /\ scanned = <<1>>

\* ------------------------------------------- claims about _get_params_types

PairwiseDisjoint(a, b, c) == a \cap b = {} /\ a \cap c = {} /\ b \cap c = {}
PartitionUnion == types.required \cup types.optional \cup types.immutable
DeclaredRequired == runner_required \cup action_required

\* C5 as stated: for any runner and action the three sets are pairwise
\* disjoint and their union is exactly the key set of the merged table.
C5_Original ==
    pc = "typed" =>
        /\ PairwiseDisjoint(types.required, types.optional, types.immutable)
        /\ PartitionUnion = DOMAIN types.parameters
\* C5 amended: the three sets are pairwise disjoint and their union is the
\* key set of the merged table together with the names of required_parameters;
\* it is exactly the key set when every required name is a key of the table.
C5_PartitionOfKeysAndRequired ==
    pc = "typed" =>
        /\ PairwiseDisjoint(types.required, types.optional, types.immutable)
        /\ PartitionUnion = DOMAIN types.parameters \cup DeclaredRequired
        /\ DOMAIN types.parameters = DOMAIN runner_parameters \cup DOMAIN action_parameters
        /\ DeclaredRequired \subseteq DOMAIN types.parameters =>
            PartitionUnion = DOMAIN types.parameters
\* A required name that is also immutable, beside one that is required only
C5_Witness ==
    /\ pc = "typed"
    /\ types.required # {}
    /\ types.immutable # {}
    /\ types.immutable \cap DeclaredRequired # {}
    /\ DeclaredRequired \subseteq DOMAIN types.parameters
    /\ PartitionUnion = DOMAIN types.parameters

\* The immutable field of a schema's entry for n, false when absent
DeclaresImmutable(schema, n) ==
    n \in DOMAIN schema /\ "immutable" \in DOMAIN schema[n] /\ schema[n]["immutable"] = TRUE

\* C6: a name of the merged table that the runner's entry or the action's
\* entry marks immutable is in the immutable set and in neither the required
\* nor the optional set, also when it is listed as required and when the
\* action's entry says immutable false against the runner's true.
C6_ImmutableExcluded ==
    pc = "typed" =>
        \A n \in DOMAIN runner_parameters \cup DOMAIN action_parameters :
            (DeclaresImmutable(runner_parameters, n) \/ DeclaresImmutable(action_parameters, n)) =>
                /\ n \in types.immutable
                /\ n \notin types.required
                /\ n \notin types.optional
\* The runner says immutable, the action says not, and the name is required
C6_Witness ==
    /\ pc = "typed"
    /\ \E n \in DOMAIN runner_parameters \cap DOMAIN action_parameters :
        /\ runner_parameters[n] = [immutable |-> TRUE]
        /\ action_parameters[n] = [immutable |-> FALSE]
        /\ n \in action_required
        /\ n \in types.immutable
        /\ n \notin types.required

\* ------------------------------------------------ claims about run: files

\* The greatest member of a non-empty set of indexes
MaxOf(S) == CHOOSE i \in S : \A j \in S : j <= i
\* The scanned key=value tokens (no '@') with key k
PlainTokens(k) == {i \in ScannedSet : ~TokenIsFile(i) /\ TokenKey(i) = k}
\* The scanned tokens that write file_content or the staging key
FileWriters ==
    {i \in ScannedSet : TokenIsFile(i)} \cup PlainTokens(S_file_content) \cup PlainTokens(S_staging)
\* The file tokens of the command line that name an existing regular file
GoodFileTokens ==
    {i \in 1..Len(args_parameters) : TokenIsFile(i) /\ PathIsFile(FilePath(TokenValue(i)))}
\* The key=value tokens of the command line with key k
GivenTokens(k) == {i \in 1..Len(args_parameters) : TokenHasEq(i) /\ ~TokenIsFile(i) /\ TokenKey(i) = k}

\* C7 as stated: whenever the token sequence contains a file token of an
\* existing regular file, the mapping has that file's bytes as file_content,
\* file_name its basename unless a file_name token gave one, and method POST
\* unless a method token gave one.
C7_Original ==
    created # <<>> =>
        \A i \in GoodFileTokens :
            /\ {S_file_content, S_file_name, S_method} \subseteq DOMAIN created[1]
            /\ created[1][S_file_content] = BytesV(FileBytes(FilePath(TokenValue(i))))
            /\ IF GivenTokens(S_file_name) = {}
               THEN created[1][S_file_name] = StrV(basename(FilePath(TokenValue(i))))
               ELSE \E j \in GivenTokens(S_file_name) :
                        created[1][S_file_name] = StrV(TokenValue(j))
            /\ IF GivenTokens(S_method) = {}
               THEN created[1][S_method] = StrV(S_POST)
               ELSE \E j \in GivenTokens(S_method) : created[1][S_method] = StrV(TokenValue(j))
\* C7 amended: when resolution completes and the last token the scan resolved
\* that writes file_content or _file_name is a file token (it stands before
\* any bare token, and no later resolved file token, file_content=value or
\* _file_name=value token follows it), the mapping passed to create has that
\* file's bytes as file_content, file_name its basename unless a resolved
\* file_name=value token gave one, and method POST unless a resolved
\* method=value token gave one; a given file_name or method is kept whether
\* it stands before or after the file token.
C7_LastFileTokenDecides ==
    (created # <<>> /\ FileWriters # {} /\ TokenIsFile(MaxOf(FileWriters))) =>
        LET path == FilePath(TokenValue(MaxOf(FileWriters)))
            c == created[1]
        IN  /\ PathIsFile(path)
            /\ {S_file_content, S_file_name, S_method} \subseteq DOMAIN c
            /\ c[S_file_content] = BytesV(FileBytes(path))
            /\ c[S_file_name] =
                IF PlainTokens(S_file_name) = {} THEN StrV(basename(path))
                ELSE StrV(TokenValue(MaxOf(PlainTokens(S_file_name))))
            /\ c[S_method] =
                IF PlainTokens(S_method) = {} THEN StrV(S_POST)
                ELSE StrV(TokenValue(MaxOf(PlainTokens(S_method))))
\* file_name given before the file token, method after it
C7_Witness ==
    /\ created # <<>>
    /\ args_parameters = <<T_file_name, T_file_sb, T_method>>
    /\ created[1][S_file_content] = BytesV(<<"B">>)
    /\ created[1][S_file_name] = StrV(<<"z">>)
    /\ created[1][S_method] = StrV(<<"G","E","T">>)

\* C10 as stated: the mapping passed to create never holds the key _file_name.
C10_Original == \A i \in 1..Len(created) : S_staging \notin DOMAIN created[i]
\* C10 amended: a mapping passed to create that holds file_content never holds
\* _file_name (the post-pass dropped it), and a mapping holds _file_name only
\* when a _file_name=value token put it there and nothing set file_content.
C10_StagingKeyDropped ==
    \A i \in 1..Len(created) :
        /\ S_file_content \in DOMAIN created[i] => S_staging \notin DOMAIN created[i]
        /\ S_staging \in DOMAIN created[i] =>
            /\ PlainTokens(S_staging) # {}
            /\ created[i][S_staging] = StrV(TokenValue(MaxOf(PlainTokens(S_staging))))
            /\ \A j \in ScannedSet : ~TokenIsFile(j)
\* A staged file whose mapping reaches create without the staging key
C10_Witness ==
    /\ created # <<>>
    /\ args_parameters = <<T_file_a>>
    /\ DOMAIN created[1] = {S_file_content, S_file_name, S_method}
    /\ created[1][S_file_name] = StrV(<<"a">>)

\* ------------------------------------------ claims about run: transformers

\* The last token the scan resolved
LastScanned == scanned[Len(scanned)]
\* The scan has just stored the value of a key=value token, and nothing has
\* written over it since.
JustStored ==
    /\ scanned # <<>>
    /\ ~TokenIsFile(LastScanned)
    /\ pc = "scan" \/ (pc = "post" /\ FirstBare > Len(args_parameters))
\* The scan has just left run with the exception of a key=value token
JustRaised ==
    /\ pc = "raised"
    /\ error.exc # "KeyError"
    /\ scanned # <<>>
    /\ ~TokenIsFile(LastScanned)
\* The type field of a schema's entry for name k, "" when it has none
TypeField(schema, k) ==
    IF k \in DOMAIN schema /\ "type" \in DOMAIN schema[k] THEN schema[k]["type"] ELSE ""
\* The type of the first schema, runner before action, with a type field for k
FirstTypeField(k) ==
    IF TypeField(runner_parameters, k) # "" THEN TypeField(runner_parameters, k)
    ELSE TypeField(action_parameters, k)
\* The type of the first schema, runner before action, whose type field for k
\* names one of the six transformers
FirstKnownType(k) ==
    IF TypeField(runner_parameters, k) \in TransformerTypes THEN TypeField(runner_parameters, k)
    ELSE IF TypeField(action_parameters, k) \in TransformerTypes
    THEN TypeField(action_parameters, k)
    ELSE ""
\* What storing raw value v under type ty comes to: the coerced value, the
\* raw string when ty names no transformer, or the exception
Coerced(ty, v) == IF ty \in TransformerTypes THEN transformer(ty, v) ELSE Ok(StrV(v))
\* The scan did to its last token what `expected` says
ScanDid(expected) ==
    /\ JustStored =>
        /\ expected.ok
        /\ TokenKey(LastScanned) \in DOMAIN parameters
        /\ parameters[TokenKey(LastScanned)] = expected.val
    /\ JustRaised =>
        /\ ~expected.ok
        /\ error = Reraise(ErrorOf(expected))

\* C8 as stated: a raw value for a boolean parameter is stored as true for any
\* case variant of "true", as false for any case variant of "false", and any
\* other raw string fails with the error that names the valid values true and
\* false; no value that is not a boolean is ever stored.
C8_Original ==
    (scanned # <<>> /\ ~TokenIsFile(LastScanned)
        /\ FirstKnownType(TokenKey(LastScanned)) = "boolean") =>
        /\ JustStored =>
            /\ Lower(TokenValue(LastScanned)) \in {<<"t","r","u","e">>, <<"f","a","l","s","e">>}
            /\ parameters[TokenKey(LastScanned)] =
                BoolV(Lower(TokenValue(LastScanned)) = <<"t","r","u","e">>)
        /\ JustRaised =>
            /\ Lower(TokenValue(LastScanned)) \notin {<<"t","r","u","e">>, <<"f","a","l","s","e">>}
            /\ error.text = "Invalid value for boolean parameter. Valid values are: true, false"

\* C9 as stated: the first schema, runner before action, that has a type
\* field for the name decides how the raw value is stored.
C9_Original ==
    (scanned # <<>> /\ ~TokenIsFile(LastScanned)) =>
        ScanDid(Coerced(FirstTypeField(TokenKey(LastScanned)), TokenValue(LastScanned)))
\* C9 amended: the first schema, runner before action, whose type field for
\* the name is one of the six known types decides how the raw value is
\* stored; a runner type field naming another type is passed over for the
\* action's; with both typed differently the runner's type decides, and with
\* no known type in either the raw string is stored as it came.
C9_FirstKnownTypeDecides ==
    (scanned # <<>> /\ ~TokenIsFile(LastScanned)) =>
        ScanDid(Coerced(FirstKnownType(TokenKey(LastScanned)), TokenValue(LastScanned)))
\* n is an integer for the runner and a string for the action: 1 is stored
\* as the integer
C9_Witness ==
    /\ pc = "done"
    /\ args_parameters = <<T_n1>>
    /\ TypeField(runner_parameters, <<"n">>) = "integer"
    /\ TypeField(action_parameters, <<"n">>) = "string"
    /\ created[1][<<"n">>] = IntV(1)

\* ------------------------------------------- claims about run: the post-pass

\* No token of the command line starts with '@'
NoAtTokens == \A i \in 1..Len(args_parameters) : ~StartsWith(args_parameters[i], <<"@">>)
\* The keys the scan set: the keys of the tokens it resolved, and cmd when it
\* met a bare token
ScanKeys ==
    {TokenKey(j) : j \in ScannedSet}
        \cup (IF FirstBare <= Len(args_parameters) THEN {S_cmd} ELSE {})

\* C13 as stated: on a command line without '@' tokens whose coercions all
\* succeed, a plain file_content=value token included, the post-pass raises
\* nothing and leaves the mapping as the scan left it: what is submitted has
\* exactly the keys the scan set, with no method or file_name added.
C13_Original ==
    NoAtTokens =>
        /\ error.exc # "KeyError"
        /\ pc \in {"submit", "poll", "done"} => DOMAIN parameters = ScanKeys
        /\ \A i \in 1..Len(created) : DOMAIN created[i] = ScanKeys


\* ------------------------------------------------ claims about _sort_parameters

TableOfSort == MergedParameters(runner_parameters, action_parameters)
InTable(n) == n \in DOMAIN TableOfSort
HasPosition(n) == InTable(n) /\ "position" \in DOMAIN TableOfSort[n]
HasEntry(n) == InTable(n) /\ DOMAIN TableOfSort[n] # {}
IndexIn(seq, x) == CHOOSE i \in 1..Len(seq) : seq[i] = x
IsPermutation(out, in) ==
    /\ Len(out) = Len(in)
    /\ {out[i] : i \in 1..Len(out)} = {in[i] : i \in 1..Len(in)}
\* The key the specification names: the position when declared, else the name
PositionElseName(n) == IF HasPosition(n) THEN IntV(TableOfSort[n]["position"]) ELSE StrV(n)
\* The key with the names that have no entry set apart
SortKey(n) ==
    CASE ~HasEntry(n) -> NoneV
      [] HasEntry(n) /\ HasPosition(n) -> IntV(TableOfSort[n]["position"])
      [] OTHER -> StrV(n)
Ascending(out, key(_)) ==
    \A i, j \in 1..Len(out) : i < j => ~KeyLess(key(out[j]), key(out[i]))

LastPrinted == printed[Len(printed)]
PrintedKinds == {printed[i].kind : i \in 1..Len(printed)}

\* C11: with --help set, run_and_print never submits an execution: create
\* and get_by_id are never called and run is never entered, whether or not an
\* action reference was given, and whether the help is rendered, the action
\* is not found, or the rendering ends with an error.
C11_HelpNeverSubmits ==
    args_help =>
        /\ created = <<>>
        /\ refetches = 0
        /\ execution = NoExecution
        /\ pc \in {"start", "helped"}
        /\ pc = "helped" => printed # <<>>

\* --help with an action reference and parameter tokens: print_help found the
\* action, printed a required parameter and then failed on a parameter
\* without a schema, and the command ended without a submission.
C11_Witness ==
    /\ args_help /\ args_ref_or_id /\ lookup = "ok"
    /\ args_parameters # <<>>
    /\ pc = "helped"
    /\ "name" \in PrintedKinds
    /\ LastPrinted.kind = "error"
    /\ created = <<>> /\ refetches = 0

====
